---------------------------- MODULE Spec2Model ----------------------------
(***************************************************************************)
(* DARS (Dormitory Automated Residential System): the agent of             *)
(* src/languageModel/llm.py.                                               *)
(*                                                                         *)
(* Text is modelled as a sequence of tokens.  A token is an atomic piece   *)
(* of text (a word, a marker such as "FUNC:", a digit, a blank, "\n");     *)
(* Python's substring test `kw in text` is "some token of the text holds   *)
(* kw", str.split / join / strip / replace work on the token sequence.     *)
(***************************************************************************)
EXTENDS Integers, Sequences, FiniteSets, TLC

VARIABLES
    pc,            \* position of the interaction loop (main, llm.py 612-628)
    user_input,    \* the line read by input("You: ")
    humor_level,   \* DARSAgent.humor_level
    humor_before,  \* humor_level when the running process_message call began
    tool_call,     \* the adjust_humor invocation made by the agent in this turn
    ret,           \* (natural_language, function_output) of process_message
    tier_in,       \* a humor level given to each copy of the tier mapping
    set_out,       \* reply of the direct set command at tier_in
    query_out,     \* reply of the humor query at tier_in
    tool_out,      \* string returned by HumorLevelTool.handle at tier_in
    ppc,           \* position of one turn of the agent task
    captured,      \* stdout_capture.getvalue(): the raw transcript of the turn
    run_out,       \* the string DARSTask.run returns
    parse_out,     \* the pair _parse_response returns
    vault,         \* ~/.config/DARS/mdvault: file name -> file text
    note_last,     \* the last NoteTool message handled
    note_out,      \* the string its handle returned
    todo_file,     \* ~/.config/DARS/todolist/todos.csv
    todo_last,     \* the last TodoTool message handled
    todo_out,      \* the string its handle returned
    vpc,           \* position of the voice program (main, DARSVoiceInterface.run)
    openai_key,    \* OPENAI_API_KEY is set in the environment
    eleven_key,    \* ELEVENLABS_API_KEY is set in the environment
    is_listening,  \* DARSVoiceInterface.is_listening
    utterance,     \* what speech_recognizer.listen() returned last
    reply,         \* (natural_language, function_output) of the voice turn
    spoken,        \* the text of the last generate_speech call that played
    listens,       \* number of utterances captured by listen()
    calls,         \* number of process_message calls made by the voice loop
    kpc,           \* position of the keyboard callback toggle_listening
    k_seen,        \* the value of is_listening the callback has read
    key_pressed,   \* the spacebar was pressed since the last spoken pause command
    sep_pc,        \* position of one separate_function_output call
    sep_in,        \* its argument
    sep_out,       \* the pair it returns
    mark_out       \* the pair the marker-based parse returns for the same text

agentVars == <<pc, user_input, humor_level, humor_before, tool_call, ret>>
tierVars == <<tier_in, set_out, query_out, tool_out>>

parseVars == <<ppc, captured, run_out, parse_out>>
noteVars == <<vault, note_last, note_out>>
todoVars == <<todo_file, todo_last, todo_out>>
voiceVars == <<vpc, openai_key, eleven_key, is_listening, utterance, reply,
               spoken, listens, calls, kpc, k_seen, key_pressed>>
sepVars == <<sep_pc, sep_in, sep_out, mark_out>>

vars == <<agentVars, tierVars, parseVars, noteVars, todoVars, voiceVars, sepVars>>

-----------------------------------------------------------------------------
(* Bounds of the model *)

MaxMsgLen == 5
MaxTranscriptLen == 5
MaxTodos == 2

-----------------------------------------------------------------------------
(* Generic text helpers *)

NL == "\n"
SP == " "

\* Optional[str] = None
None == <<"<None>">>

Range(s) == {s[i] : i \in 1..Len(s)}

SeqsUpTo(S, n) == UNION {[1..k -> S] : k \in 0..n}

Whitespace == {SP, NL}

RECURSIVE LStrip(_)
LStrip(s) ==
    IF s # <<>> /\ Head(s) \in Whitespace THEN LStrip(Tail(s)) ELSE s

RECURSIVE RStrip(_)
RStrip(s) ==
    IF s # <<>> /\ s[Len(s)] \in Whitespace
    THEN RStrip(SubSeq(s, 1, Len(s) - 1)) ELSE s

\* str.strip()
Strip(s) == RStrip(LStrip(s))

\* str.replace(tok, "")
Remove(s, tok) == SelectSeq(s, LAMBDA t : t # tok)

\* str.split(sep): the pieces between the occurrences of sep
RECURSIVE SplitAcc(_, _, _)
SplitAcc(s, sep, cur) ==
    IF s = <<>> THEN <<cur>>
    ELSE IF Head(s) = sep THEN <<cur>> \o SplitAcc(Tail(s), sep, <<>>)
    ELSE SplitAcc(Tail(s), sep, Append(cur, Head(s)))

Split(s, sep) == SplitAcc(s, sep, <<>>)

\* sep.join(parts)
RECURSIVE Join(_, _)
Join(parts, sep) ==
    IF parts = <<>> THEN <<>>
    ELSE IF Len(parts) = 1 THEN parts[1]
    ELSE parts[1] \o <<sep>> \o Join(Tail(parts), sep)

-----------------------------------------------------------------------------
(* Digits: re.findall(r'\d+'), int(), str() *)

Digits == {"0", "1", "2", "3", "4", "5", "6", "7", "8", "9"}

DigitVal(d) ==
    CASE d = "0" -> 0 [] d = "1" -> 1 [] d = "2" -> 2 [] d = "3" -> 3
      [] d = "4" -> 4 [] d = "5" -> 5 [] d = "6" -> 6 [] d = "7" -> 7
      [] d = "8" -> 8 [] d = "9" -> 9

DigitTok(n) ==
    CASE n = 0 -> "0" [] n = 1 -> "1" [] n = 2 -> "2" [] n = 3 -> "3"
      [] n = 4 -> "4" [] n = 5 -> "5" [] n = 6 -> "6" [] n = 7 -> "7"
      [] n = 8 -> "8" [] n = 9 -> "9"

\* re.findall(r'\d+', message): the maximal runs of digits, left to right
RECURSIVE FindNumbersAcc(_, _)
FindNumbersAcc(s, cur) ==
    IF s = <<>> THEN (IF cur = <<>> THEN <<>> ELSE <<cur>>)
    ELSE IF Head(s) \in Digits THEN FindNumbersAcc(Tail(s), Append(cur, Head(s)))
    ELSE (IF cur = <<>> THEN <<>> ELSE <<cur>>) \o FindNumbersAcc(Tail(s), <<>>)

FindNumbers(s) == FindNumbersAcc(s, <<>>)

\* int(digits)
RECURSIVE ParseInt(_)
ParseInt(ds) ==
    IF ds = <<>> THEN 0
    ELSE 10 * ParseInt(SubSeq(ds, 1, Len(ds) - 1)) + DigitVal(ds[Len(ds)])

\* str(n) for n >= 0
RECURSIVE FormatInt(_)
FormatInt(n) ==
    IF n < 10 THEN <<DigitTok(n)>>
    ELSE Append(FormatInt(n \div 10), DigitTok(n % 10))


-----------------------------------------------------------------------------
(* Substring tests *)

\* Tokens that hold a keyword inside them ("setting" holds "set").
Inside == {<<"setting", "set">>}

Holds(tok, kw) == tok = kw \/ <<tok, kw>> \in Inside

\* kw in text
Has(text, kw) == \E i \in 1..Len(text) : Holds(text[i], kw)

\* str.lower(), token by token
LowerTok(t) ==
    CASE t = "SET" -> "set"
      [] t = "Humor" -> "humor"
      [] t = "A" -> "a"
      [] t = "B" -> "b"
      [] t = "QUIT" -> "quit"
      [] t = "Exit" -> "exit"
      [] t = "FUNC:" -> "func:"
      [] t = "Coors Light Sign turned on" -> "coors light sign turned on"
      [] OTHER -> t

Lower(s) == [i \in 1..Len(s) |-> LowerTok(s[i])]

-----------------------------------------------------------------------------
(* strip_ansi_colors and DARSTask.run *)

ESC == "\\x1b[0m"

strip_ansi_colors(text) == Remove(text, ESC)

FUNC == "FUNC:"
FUNCTION_OUTPUT == "FUNCTION_OUTPUT:"
NATURAL_OUTPUT == "NATURAL_OUTPUT:"

NoiseMarkers == {">>>", "<<<", "Stats:", "WARNING", "Bye, hope this was useful!"}

IsNoiseLine_BlankOnly(line) == Strip(line) = <<>>

\* the `continue` test of the loop over the captured lines
IsNoiseLine(line) ==
    \/ \E m \in NoiseMarkers : Has(line, m)
    \/ Strip(line) = <<>>

IsFuncLine(line) == Has(line, FUNC)

\* the text DARSTask.run returns for the captured stdout
DARSTaskRun(stdout) ==
    LET output == strip_ansi_colors(stdout)
        lines == Split(output, NL)
        kept == SelectSeq(lines, LAMBDA l : ~IsNoiseLine(l))
        func_lines == SelectSeq(kept, IsFuncLine)
        response_lines == SelectSeq(kept, LAMBDA l : ~IsFuncLine(l))
    IN  IF func_lines # <<>>
        THEN <<FUNCTION_OUTPUT>> \o Join(func_lines, NL)
                 \o <<NL, NATURAL_OUTPUT>> \o Join(response_lines, NL)
        ELSE Join(response_lines, NL)

-----------------------------------------------------------------------------
(* DARSAgent._parse_response *)

APOLOGY ==
    <<"I apologize, but I seem to be having trouble processing that request. Could you try again?">>

ParseResponse(response) ==
    IF response = <<>> \/ Strip(response) = <<>>
    THEN [nl |-> APOLOGY, func |-> None]
    ELSE LET parts == Split(response, NATURAL_OUTPUT)
         IN  IF Has(response, FUNCTION_OUTPUT) /\ Len(parts) = 2
             THEN LET func_part == Strip(Remove(parts[1], FUNCTION_OUTPUT))
                      natural_part == Strip(parts[2])
                  IN  [nl |-> natural_part,
                       func |-> Strip(Remove(func_part, FUNC))]
             ELSE [nl |-> response, func |-> None]

-----------------------------------------------------------------------------
(* DARSAgent.separate_function_output *)

UNEXPECTED == <<"I encountered an unexpected response. Please try again.">>

\* function_patterns: each regular expression is given by the texts its
\* literal head matches; the `.*$` tail runs to the end of the line
FunctionPatterns ==
    << {"Coors Light Sign turned on", "Coors Light Sign turned off"},
       {"Hologram Light turned on", "Hologram Light turned off"},
       {"Room Fan turned on", "Room Fan turned off"},
       {"Humor level changed to:"},
       {"Veridis Quo playing", "Veridis Quo stopped"} >>

PatternMatchesAt_IgnoreCase(pattern, tok) ==
    \E head \in pattern : LowerTok(head) = LowerTok(tok)

\* the head of the pattern matches at this piece of text (no re.IGNORECASE)
PatternMatchesAt(pattern, tok) == tok \in pattern

\* where the pattern first matches in a line, 0 when it does not
MatchStart(pattern, line) ==
    LET hits == {i \in 1..Len(line) : PatternMatchesAt(pattern, line[i])}
    IN  IF hits = {} THEN 0 ELSE CHOOSE i \in hits : \A j \in hits : i <= j

\* re.sub(pattern, "", line): the match runs from its start to the end of line
CutLine(pattern, line) ==
    IF MatchStart(pattern, line) = 0 THEN line
    ELSE SubSeq(line, 1, MatchStart(pattern, line) - 1)

\* re.search(pattern, response, re.MULTILINE).group(0)
FirstMatch(pattern, lines) ==
    LET k == CHOOSE n \in 1..Len(lines) :
                 /\ MatchStart(pattern, lines[n]) > 0
                 /\ \A m \in 1..(n - 1) : MatchStart(pattern, lines[m]) = 0
    IN  SubSeq(lines[k], MatchStart(pattern, lines[k]), Len(lines[k]))

separate_function_output(response) ==
    IF response = None
    THEN [nl |-> UNEXPECTED, func |-> None]
    ELSE LET lines == Split(response, NL)
             matching == {p \in 1..Len(FunctionPatterns) :
                             \E n \in 1..Len(lines) :
                                 MatchStart(FunctionPatterns[p], lines[n]) > 0}
         IN  IF matching = {}
             THEN [nl |-> response, func |-> None]
             ELSE LET p == CHOOSE q \in matching : \A r \in matching : q <= r
                      pattern == FunctionPatterns[p]
                  IN  [nl |-> Strip(Join([n \in 1..Len(lines) |->
                                              CutLine(pattern, lines[n])], NL)),
                       func |-> FirstMatch(pattern, lines)]

-----------------------------------------------------------------------------
(* clean_response (nested in process_message) *)

MODEL_TAG == "gpt4o-2023-12-01"
COT_TAG == "cot=0.5"

\* re.sub(r'\s+', ' ', text)
RECURSIVE CollapseSpaces(_)
CollapseSpaces(s) ==
    IF s = <<>> THEN <<>>
    ELSE IF Head(s) \in Whitespace
         THEN <<SP>> \o CollapseSpaces(LStrip(s))
         ELSE <<Head(s)>> \o CollapseSpaces(Tail(s))

clean_response(text) ==
    Strip(CollapseSpaces(Remove(Remove(text, MODEL_TAG), COT_TAG)))

-----------------------------------------------------------------------------
(* Humor level *)

HumorMin == 0
HumorMax == 100
DefaultHumor == 50

SetContext_Exclusive(new_level) ==
    IF new_level < 20 THEN "very serious"
    ELSE IF new_level < 40 THEN "mostly serious"
    ELSE IF new_level < 60 THEN "balanced"
    ELSE IF new_level < 80 THEN "quite humorous"
    ELSE "extremely humorous"

\* the tier of the direct set command (process_message, set branch)
SetContext(new_level) ==
    IF new_level <= 20 THEN "very serious"
    ELSE IF new_level <= 40 THEN "mostly serious"
    ELSE IF new_level <= 60 THEN "balanced"
    ELSE IF new_level <= 80 THEN "quite humorous"
    ELSE "extremely humorous"

\* the tier of the humor query (process_message, query branch)
QueryContext(level) ==
    IF level <= 20 THEN "very serious"
    ELSE IF level <= 40 THEN "mostly serious"
    ELSE IF level <= 60 THEN "balanced"
    ELSE IF level <= 80 THEN "quite humorous"
    ELSE "extremely humorous"

\* the tier of HumorLevelTool.handle
ToolContext(level) ==
    IF level <= 20 THEN "very serious"
    ELSE IF level <= 40 THEN "mostly serious"
    ELSE IF level <= 60 THEN "balanced"
    ELSE IF level <= 80 THEN "quite humorous"
    ELSE "extremely humorous"

ADJUSTED == "I've adjusted my personality to be"
NOTICE == ". You should notice a difference in how I communicate now."
CHANGED == "Humor level changed to:"
PLEASE_RANGE == <<"Please provide a humor level between 0 and 100.">>
NOT_UNDERSTOOD ==
    <<"I couldn't understand the humor level value. Please provide a number between 0 and 100.">>

VerbalAdjusted(context) == <<ADJUSTED, SP, context, NOTICE>>

HumorChanged(level) == <<CHANGED, SP>> \o FormatInt(level) \o <<"/100">>

CurrentHumor(level, context) ==
    <<"My humor level is currently set to", SP>> \o FormatInt(level)
        \o <<"/100, making me", SP, context, ".">>

\* HumorLevelTool.handle: the string the tool returns (pydantic has validated
\* 0 <= humor_level <= 100 before handle runs)
HumorLevelToolHandle(level) ==
    <<FUNC, SP>> \o HumorChanged(level) \o <<NL>> \o VerbalAdjusted(ToolContext(level))

-----------------------------------------------------------------------------
(* DARSAgent.process_message *)

InRange_NoUpperBound(new_level) == HumorMin <= new_level

\* if 0 <= new_level <= 100
InRange(new_level) == HumorMin <= new_level /\ new_level <= HumorMax

\* `stdout` is what the agent task prints when the message is routed to it.
\* int(numbers[0]) is applied to a run of digits and cannot raise, so the
\* except ValueError reply (NOT_UNDERSTOOD) is never returned.
process_message(message, level, stdout) ==
    LET msg_lower == Lower(message)
        numbers == FindNumbers(message)
        has_number == Len(numbers) > 0
    IN  IF /\ (Has(msg_lower, "set") \/ Has(msg_lower, "change") \/ Has(msg_lower, "adjust"))
           /\ Has(msg_lower, "humor")
           /\ has_number
        THEN LET new_level == ParseInt(numbers[1])
             IN  IF InRange(new_level)
                 THEN [humor_level |-> new_level,
                       nl |-> VerbalAdjusted(SetContext(new_level)),
                       func |-> HumorChanged(new_level),
                       route |-> "set"]
                 ELSE [humor_level |-> level,
                       nl |-> PLEASE_RANGE,
                       func |-> None,
                       route |-> "range"]
        ELSE IF /\ Has(msg_lower, "humor")
                /\ \E word \in {"level", "setting", "what", "how"} : Has(msg_lower, word)
        THEN [humor_level |-> level,
              nl |-> CurrentHumor(level, QueryContext(level)),
              func |-> None,
              route |-> "query"]
        ELSE LET result == ParseResponse(DARSTaskRun(stdout))
             IN  [humor_level |-> level,
                  nl |-> IF result.nl # <<>> THEN clean_response(result.nl) ELSE result.nl,
                  func |-> result.func,
                  route |-> "task"]

-----------------------------------------------------------------------------
(* Dates: datetime.now(), timedelta, strftime("%Y-%m-%d"), strptime *)

\* (current_date + timedelta(days = offset)).strftime("%Y-%m-%d")
FormatDate(offset) == <<"now+">> \o FormatInt(offset) \o <<"d">>

GIVEN_DATE == <<"2024-05-01">>

\* the same day written without zero padding
UNPADDED_DATE == <<"2024-5-1">>

\* the texts datetime.strptime(text, "%Y-%m-%d") accepts
IsISODate(text) == text \in {GIVEN_DATE, UNPADDED_DATE}

\* datetime.strptime(text, "%Y-%m-%d").strftime("%Y-%m-%d") for such a text
ReformatDate(text) == GIVEN_DATE

-----------------------------------------------------------------------------
(* NoteTool *)

NoFile == <<"<no file>">>

Punctuation == {"!", "'", ".", ":", "/"}

\* NoteTool._sanitize_filename: re.sub(r'[^\w\s-]', '', title), strip, ' ' -> '_'
sanitize_filename(title) ==
    LET sanitized == SelectSeq(title, LAMBDA t : t \notin Punctuation)
        stripped == Strip(sanitized)
    IN  [i \in 1..Len(stripped) |-> IF stripped[i] = SP THEN "_" ELSE stripped[i]]

\* f"Note_{datetime.now().strftime('%Y%m%d_%H%M%S')}"
GENERATED_TITLE == <<"Note_", "<now>">>

NoteFileName(title) == sanitize_filename(title) \o <<".md">>

\* the last title holds a line that reads "---"
NoteTitles ==
    {<<>>, <<"My", SP, "Plan">>, <<"My", "_", "Plan", "!">>, <<"a", NL, "---">>}

NoteContents == {<<>>, <<"x">>, <<"y", NL, "z">>}

NoteDates == {<<>>, GIVEN_DATE}

NoteFiles == {NoteFileName(t) : t \in (NoteTitles \ {<<>>}) \cup {GENERATED_TITLE}}

\* re.match(r'^---\n.*?\n---\n', current_content, re.DOTALL): the length of the
\* match, 0 when there is none
MetadataEnd(text) ==
    LET ends == {j \in 3..(Len(text) - 2) :
                    text[j] = NL /\ text[j + 1] = "---" /\ text[j + 2] = NL}
    IN  IF Len(text) >= 2 /\ text[1] = "---" /\ text[2] = NL /\ ends # {}
        THEN (CHOOSE j \in ends : \A k \in ends : j <= k) + 2
        ELSE 0

NoteText_NoBody(title, date, content) ==
    <<"---", NL, "title: ">> \o title \o <<NL, "date: ">> \o date
        \o <<NL, "---", NL, NL, NL>>

\* note_content: the front matter, a blank line, the body
NoteText(title, date, content) ==
    <<"---", NL, "title: ">> \o title \o <<NL, "date: ">> \o date
        \o <<NL, "---", NL, NL>> \o content \o <<NL>>

NOTE_NOT_FOUND == "Error: Note not found"
NOTE_NO_TITLE == "Error: No title provided"
NOTE_INVALID ==
    <<FUNC, SP, "Error: Invalid operation", NL,
      "Sorry, I don't recognize that operation. Valid operations are: new, read, modify, delete.">>

\* NoteTool.handle: the vault after the call and the string returned
NoteHandle(operation, title0, content0, date0, v) ==
    IF operation = "new" THEN
        LET title == IF title0 = <<>> THEN GENERATED_TITLE ELSE title0
            content == IF content0 = <<>> THEN <<"Empty note">> ELSE content0
            date == IF date0 = <<>> THEN FormatDate(0) ELSE date0
            filename == NoteFileName(title)
            note_content == NoteText(title, date, content)
        IN  [vault |-> [v EXCEPT ![filename] = note_content],
             out |-> <<FUNC, SP, "Note created:", SP>> \o filename
                        \o <<NL, "I've created a new note titled '">> \o title
                        \o <<"' in the vault.">>]
    ELSE IF operation = "read" THEN
        IF title0 = <<>>
        THEN [vault |-> v,
              out |-> <<FUNC, SP, NOTE_NO_TITLE, NL, "I need a title to read a note.">>]
        ELSE IF v[NoteFileName(title0)] = NoFile
        THEN [vault |-> v,
              out |-> <<FUNC, SP, NOTE_NOT_FOUND, NL, "I couldn't find a note titled '">>
                         \o title0 \o <<"' in the vault.">>]
        ELSE [vault |-> v,
              out |-> <<FUNC, SP, "NOTE_CONTENT_FOR_PROCESSING", NL>>
                         \o v[NoteFileName(title0)]]
    ELSE IF operation = "modify" THEN
        IF title0 = <<>>
        THEN [vault |-> v,
              out |-> <<FUNC, SP, NOTE_NO_TITLE, NL, "I need a title to modify a note.">>]
        ELSE IF v[NoteFileName(title0)] = NoFile
        THEN [vault |-> v,
              out |-> <<FUNC, SP, NOTE_NOT_FOUND, NL, "I couldn't find a note titled '">>
                         \o title0 \o <<"' to modify.">>]
        ELSE IF content0 # <<>>
        THEN LET current_content == v[NoteFileName(title0)]
                 metadata == SubSeq(current_content, 1, MetadataEnd(current_content))
             IN  [vault |-> [v EXCEPT ![NoteFileName(title0)] = metadata \o content0],
                  out |-> <<FUNC, SP, "Note modified:", SP>> \o NoteFileName(title0)
                             \o <<NL, "I've updated the content of '">> \o title0 \o <<"'.">>]
        ELSE [vault |-> v, out |-> NOTE_INVALID]
    ELSE IF operation = "delete" THEN
        IF title0 = <<>>
        THEN [vault |-> v,
              out |-> <<FUNC, SP, NOTE_NO_TITLE, NL, "I need a title to delete a note.">>]
        ELSE IF v[NoteFileName(title0)] = NoFile
        THEN [vault |-> v,
              out |-> <<FUNC, SP, NOTE_NOT_FOUND, NL, "I couldn't find a note titled '">>
                         \o title0 \o <<"' to delete.">>]
        ELSE [vault |-> [v EXCEPT ![NoteFileName(title0)] = NoFile],
              out |-> <<FUNC, SP, "Note deleted:", SP>> \o NoteFileName(title0)
                         \o <<NL, "I've deleted the note '">> \o title0
                         \o <<"' from the vault.">>]
    ELSE [vault |-> v, out |-> NOTE_INVALID]

-----------------------------------------------------------------------------
(* TodoTool *)

\* needle in haystack, both token sequences
IsSubstring(needle, haystack) ==
    \E i \in 1..(Len(haystack) - Len(needle) + 1) :
        SubSeq(haystack, i, i + Len(needle) - 1) = needle

NameMatches_CaseSensitive(item_name, row) == IsSubstring(item_name, row.name)

\* self.item_name.lower() in row['name'].lower()
NameMatches(item_name, row) == IsSubstring(Lower(item_name), Lower(row.name))

ItemNames == {<<>>, <<"a">>, <<"B">>, <<"b">>, <<"a", "B">>}

DueDates == {<<>>, <<"tomorrow">>, GIVEN_DATE, <<"someday">>}

\* the due date TodoTool stores for a 'new' item
ResolveDueDate_AlwaysToday(due_date) == FormatDate(0)

ResolveDueDate(due_date) ==
    IF due_date = <<>> THEN FormatDate(0)
    ELSE IF Has(Lower(due_date), "tomorrow") THEN FormatDate(1)
    ELSE IF Has(Lower(due_date), "next week") THEN FormatDate(7)
    ELSE IF Has(Lower(due_date), "today") THEN FormatDate(0)
    ELSE IF IsISODate(due_date) THEN ReformatDate(due_date)
    ELSE FormatDate(0)

\* csv.writer turns the bool of a new row into text
BoolText(b) == IF b THEN <<"True">> ELSE <<"False">>

TODO_NO_NAME == <<FUNC, SP, "Error: No item name provided">>

TodoNotFound(item_name) == <<FUNC, SP, "Todo item not found:", SP>> \o item_name

\* one line of the 'list' reply
TodoSentence(row) ==
    <<"The task", SP>> \o row.name \o <<SP, "is", SP>>
        \o (IF Lower(row.completed) = <<"true">> THEN <<"completed">> ELSE <<"not completed">>)
        \o (IF row.due_date # <<>> THEN <<SP, "due on", SP>> \o row.due_date ELSE <<>>)
        \o <<".">>

RECURSIVE JoinSentences(_)
JoinSentences(rows) ==
    IF rows = <<>> THEN <<>>
    ELSE IF Len(rows) = 1 THEN TodoSentence(rows[1])
    ELSE TodoSentence(rows[1]) \o <<SP>> \o JoinSentences(Tail(rows))

\* the rows a csv.DictReader still yields after a loop has read it to the end
ExhaustedReader(rows) == <<>>

NoItemName_Never(item_name) == FALSE

\* if not self.item_name
NoItemName(item_name) == item_name = <<>>

\* TodoTool.handle: the rows of todos.csv after the call (the file exists from
\* the first call on) and the string returned
TodoHandle(operation, item_name, due_date, rows0) ==
    IF operation = "new" THEN
        IF NoItemName(item_name)
        THEN [rows |-> rows0, out |-> TODO_NO_NAME]
        ELSE LET due == ResolveDueDate(due_date)
             IN  [rows |-> Append(rows0, [name |-> item_name, due_date |-> due,
                                          completed |-> BoolText(FALSE)]),
                  out |-> <<FUNC, SP, "Added todo item:", SP>> \o item_name
                             \o <<SP, "(Due:", SP>> \o due \o <<")">>]
    ELSE IF operation = "list" THEN
        IF rows0 = <<>>
        THEN [rows |-> rows0,
              out |-> <<FUNC, SP, "No todos found.", NL, "You have no tasks on your todo list.">>]
        ELSE IF Len(rows0) = 1
        THEN [rows |-> rows0,
              out |-> <<FUNC, SP, "Current todos:", NL, "You have one task:", SP>>
                         \o JoinSentences(rows0)]
        ELSE [rows |-> rows0,
              out |-> <<FUNC, SP, "Current todos:", NL, "You have", SP>>
                         \o FormatInt(Len(rows0)) \o <<SP, "tasks:", SP>>
                         \o JoinSentences(rows0)]
    ELSE IF operation = "complete" THEN
        IF NoItemName(item_name)
        THEN [rows |-> rows0, out |-> TODO_NO_NAME]
        ELSE LET rows == [i \in 1..Len(rows0) |->
                            IF NameMatches(item_name, rows0[i])
                            THEN [rows0[i] EXCEPT !.completed = <<"True">>]
                            ELSE rows0[i]]
                 found == \E i \in 1..Len(rows0) : NameMatches(item_name, rows0[i])
             IN  IF found
                 THEN [rows |-> rows,
                       out |-> <<FUNC, SP, "Completed todo item:", SP>> \o item_name]
                 ELSE [rows |-> rows0, out |-> TodoNotFound(item_name)]
    ELSE IF operation = "delete" THEN
        IF NoItemName(item_name)
        THEN [rows |-> rows0, out |-> TODO_NO_NAME]
        ELSE LET rows == SelectSeq(rows0, LAMBDA row : ~NameMatches(item_name, row))
                 found == Len(rows) < Len(ExhaustedReader(rows0))
             IN  IF found
                 THEN [rows |-> rows,
                       out |-> <<FUNC, SP, "Deleted todo item:", SP>> \o item_name]
                 ELSE [rows |-> rows0, out |-> TodoNotFound(item_name)]
    ELSE [rows |-> rows0, out |-> <<FUNC, SP, "Error: Invalid operation">>]

-----------------------------------------------------------------------------
(* Initial states of the components *)

NoTool == 0 - 1

NoRet == [nl |-> None, func |-> None]

\* DARSAgent.__init__
InitAgent ==
    /\ pc = "new"
    /\ user_input = <<>>
    /\ humor_level = DefaultHumor
    /\ humor_before = DefaultHumor
    /\ tool_call = NoTool
    /\ ret = NoRet

TierIdle ==
    /\ tier_in = DefaultHumor
    /\ set_out = <<>>
    /\ query_out = <<>>
    /\ tool_out = <<>>

ParseIdle ==
    /\ ppc = "captured"
    /\ captured = <<>>
    /\ run_out = <<>>
    /\ parse_out = NoRet

NoMessage == [operation |-> "", title |-> <<>>, content |-> <<>>]

\* an empty vault directory
InitNotes ==
    /\ vault = [f \in NoteFiles |-> NoFile]
    /\ note_last = NoMessage
    /\ note_out = <<>>

NoTodoMessage == [operation |-> "", item_name |-> <<>>, due_date |-> <<>>]

\* no todos.csv yet
InitTodos ==
    /\ todo_file = [exists |-> FALSE, rows |-> <<>>]
    /\ todo_last = NoTodoMessage
    /\ todo_out = <<>>

\* the voice program before main() has run (src/main.py)
VoiceState ==
    /\ vpc = "main"
    /\ is_listening = TRUE
    /\ utterance = <<>>
    /\ reply = NoRet
    /\ spoken = None
    /\ listens = 0
    /\ calls = 0
    /\ kpc = "idle"
    /\ k_seen = TRUE
    /\ key_pressed = FALSE

VoiceIdle ==
    /\ VoiceState
    /\ openai_key = TRUE
    /\ eleven_key = TRUE

SepIdle ==
    /\ sep_pc = "called"
    /\ sep_in = <<>>
    /\ sep_out = NoRet
    /\ mark_out = NoRet

-----------------------------------------------------------------------------
(* The interaction loop over the agent (main) *)

notAgent == <<tierVars, parseVars, noteVars, todoVars, voiceVars, sepVars>>

MsgTokens == {"set", "humor", "setting", "-", "0", "1"}

\* levels the language model asks adjust_humor for (each within the range the
\* tool's field validation admits)
ToolLevels == {80}

TextExitCommands == {<<"quit">>, <<"exit">>}

\* lines typed as a whole: exit words in several letter cases, and a line that
\* only begins with one
CommandLines == {<<"quit">>, <<"Exit">>, <<"QUIT">>, <<"quit", SP, "now">>}

PLAIN_REPLY == <<"Certainly.", NL>>

\* what one run of the agent task prints: a plain reply, or the result of an
\* adjust_humor call
AgentTurns ==
    {[tool |-> NoTool, stdout |-> PLAIN_REPLY]}
        \cup {[tool |-> l, stdout |-> HumorLevelToolHandle(l)] : l \in ToolLevels}

\* dars = DARSAgent(); while True:
EnterLoop ==
    /\ pc = "new"
    /\ pc' = "input"
    /\ UNCHANGED <<user_input, humor_level, humor_before, tool_call, ret>>
    /\ UNCHANGED notAgent

\* input("You: ") receives one more piece of the line
TypeToken(t) ==
    /\ pc = "input"
    /\ Len(user_input) < MaxMsgLen
    /\ user_input' = Append(user_input, t)
    /\ UNCHANGED <<pc, humor_level, humor_before, tool_call, ret>>
    /\ UNCHANGED notAgent

\* input("You: ") receives a whole line
TypeLine(line) ==
    /\ pc = "input"
    /\ user_input = <<>>
    /\ user_input' = line
    /\ pc' = "typed"
    /\ UNCHANGED <<humor_level, humor_before, tool_call, ret>>
    /\ UNCHANGED notAgent

\* if user_input.lower() in ['quit', 'exit']: break
Quit ==
    /\ pc \in {"input", "typed"}
    /\ Lower(user_input) \in TextExitCommands
    /\ pc' = "done"
    /\ UNCHANGED <<user_input, humor_level, humor_before, tool_call, ret>>
    /\ UNCHANGED notAgent

\* natural_language, function_output = dars.process_message(user_input)
ProcessMessage(turn) ==
    /\ pc \in {"input", "typed"}
    /\ Lower(user_input) \notin TextExitCommands
    /\ LET r == process_message(user_input, humor_level, turn.stdout)
       IN  /\ humor_level' = r.humor_level
           /\ ret' = [nl |-> r.nl, func |-> r.func]
           /\ tool_call' = IF r.route = "task" THEN turn.tool ELSE NoTool
    /\ humor_before' = humor_level
    /\ pc' = "print"
    /\ UNCHANGED user_input
    /\ UNCHANGED notAgent

\* the outputs are printed and the loop reads the next line
PrintOutputs ==
    /\ pc = "print"
    /\ pc' = "input"
    /\ user_input' = <<>>
    /\ humor_before' = humor_level
    /\ tool_call' = NoTool
    /\ ret' = NoRet
    /\ UNCHANGED humor_level
    /\ UNCHANGED notAgent

NextAgent ==
    \/ EnterLoop
    \/ \E t \in MsgTokens : TypeToken(t)
    \/ \E line \in CommandLines : TypeLine(line)
    \/ Quit
    \/ \E turn \in AgentTurns : ProcessMessage(turn)
    \/ PrintOutputs

StartAgent ==
    InitAgent /\ TierIdle /\ ParseIdle /\ InitNotes /\ InitTodos
        /\ VoiceIdle /\ SepIdle

SpecAgent == StartAgent /\ [][NextAgent]_vars

-----------------------------------------------------------------------------
(* The three copies of the tier mapping, each applied to every level *)

notTier == <<agentVars, parseVars, noteVars, todoVars, voiceVars, sepVars>>

InitTier ==
    /\ tier_in \in HumorMin..HumorMax
    /\ set_out = <<>>
    /\ query_out = <<>>
    /\ tool_out = <<>>

\* "set humor <tier_in>" through the direct command
TierBySetCommand ==
    /\ set_out = <<>>
    /\ set_out' = process_message(<<"set", "humor">> \o FormatInt(tier_in),
                                  DefaultHumor, <<>>).nl
    /\ UNCHANGED <<tier_in, query_out, tool_out>>
    /\ UNCHANGED notTier

\* "humor level" asked while the stored level is tier_in
TierByQuery ==
    /\ query_out = <<>>
    /\ query_out' = process_message(<<"humor", "level">>, tier_in, <<>>).nl
    /\ UNCHANGED <<tier_in, set_out, tool_out>>
    /\ UNCHANGED notTier

\* adjust_humor(humor_level = tier_in)
TierByTool ==
    /\ tool_out = <<>>
    /\ tool_out' = HumorLevelToolHandle(tier_in)
    /\ UNCHANGED <<tier_in, set_out, query_out>>
    /\ UNCHANGED notTier

NextTier ==
    \/ TierBySetCommand
    \/ TierByQuery
    \/ TierByTool

StartTier ==
    InitTier /\ InitAgent /\ ParseIdle /\ InitNotes /\ InitTodos
        /\ VoiceIdle /\ SepIdle

SpecTier == StartTier /\ [][NextTier]_vars

-----------------------------------------------------------------------------
(* One turn of the agent task: capture, DARSTask.run, _parse_response *)

notParse == <<agentVars, tierVars, noteVars, todoVars, voiceVars, sepVars>>

TranscriptTokens ==
    {"hi", SP, NL, FUNC, FUNCTION_OUTPUT, NATURAL_OUTPUT, ">>>", ESC}

Transcripts == SeqsUpTo(TranscriptTokens, MaxTranscriptLen)

InitParse ==
    /\ ppc = "captured"
    /\ captured \in Transcripts
    /\ run_out = <<>>
    /\ parse_out = NoRet

\* response = self.task.run(message)
\* natural_language, function_output = self._parse_response(response)
RunAndParse ==
    /\ ppc = "captured"
    /\ run_out' = DARSTaskRun(captured)
    /\ parse_out' = ParseResponse(run_out')
    /\ ppc' = "parsed"
    /\ UNCHANGED captured
    /\ UNCHANGED notParse

NextParse == RunAndParse

StartParse ==
    InitParse /\ InitAgent /\ TierIdle /\ InitNotes /\ InitTodos
        /\ VoiceIdle /\ SepIdle

SpecParse == StartParse /\ [][NextParse]_vars

-----------------------------------------------------------------------------
(* NoteTool messages handled against the vault *)

notNotes == <<agentVars, tierVars, parseVars, todoVars, voiceVars, sepVars>>

NoteNew(title, content, date) ==
    LET r == NoteHandle("new", title, content, date, vault)
    IN  /\ vault' = r.vault
        /\ note_out' = r.out
        /\ note_last' = [operation |-> "new", title |-> title, content |-> content]
        /\ UNCHANGED notNotes

NoteRead(title) ==
    LET r == NoteHandle("read", title, <<>>, <<>>, vault)
    IN  /\ vault' = r.vault
        /\ note_out' = r.out
        /\ note_last' = [operation |-> "read", title |-> title, content |-> <<>>]
        /\ UNCHANGED notNotes

NoteModify(title, content) ==
    LET r == NoteHandle("modify", title, content, <<>>, vault)
    IN  /\ vault' = r.vault
        /\ note_out' = r.out
        /\ note_last' = [operation |-> "modify", title |-> title, content |-> content]
        /\ UNCHANGED notNotes

NoteDelete(title) ==
    LET r == NoteHandle("delete", title, <<>>, <<>>, vault)
    IN  /\ vault' = r.vault
        /\ note_out' = r.out
        /\ note_last' = [operation |-> "delete", title |-> title, content |-> <<>>]
        /\ UNCHANGED notNotes

\* an operation name the tool does not know
NoteOther(title) ==
    LET r == NoteHandle("rename", title, <<>>, <<>>, vault)
    IN  /\ vault' = r.vault
        /\ note_out' = r.out
        /\ note_last' = [operation |-> "rename", title |-> title, content |-> <<>>]
        /\ UNCHANGED notNotes

NextNotes ==
    \/ \E t \in NoteTitles, c \in NoteContents, d \in NoteDates : NoteNew(t, c, d)
    \/ \E t \in NoteTitles : NoteRead(t)
    \/ \E t \in NoteTitles, c \in NoteContents : NoteModify(t, c)
    \/ \E t \in NoteTitles : NoteDelete(t)
    \/ \E t \in NoteTitles : NoteOther(t)

StartNotes ==
    InitNotes /\ InitAgent /\ TierIdle /\ ParseIdle /\ InitTodos
        /\ VoiceIdle /\ SepIdle

SpecNotes == StartNotes /\ [][NextNotes]_vars

-----------------------------------------------------------------------------
(* TodoTool messages handled against todos.csv *)

notTodos == <<agentVars, tierVars, parseVars, noteVars, voiceVars, sepVars>>

\* handle creates todos.csv with its header when it is missing, then works on
\* the rows
TodoNew(item_name, due_date) ==
    /\ Len(todo_file.rows) < MaxTodos
    /\ LET r == TodoHandle("new", item_name, due_date, todo_file.rows)
       IN  /\ todo_file' = [exists |-> TRUE, rows |-> r.rows]
           /\ todo_out' = r.out
    /\ todo_last' = [operation |-> "new", item_name |-> item_name, due_date |-> due_date]
    /\ UNCHANGED notTodos

TodoList ==
    /\ LET r == TodoHandle("list", <<>>, <<>>, todo_file.rows)
       IN  /\ todo_file' = [exists |-> TRUE, rows |-> r.rows]
           /\ todo_out' = r.out
    /\ todo_last' = [operation |-> "list", item_name |-> <<>>, due_date |-> <<>>]
    /\ UNCHANGED notTodos

TodoComplete(item_name) ==
    /\ LET r == TodoHandle("complete", item_name, <<>>, todo_file.rows)
       IN  /\ todo_file' = [exists |-> TRUE, rows |-> r.rows]
           /\ todo_out' = r.out
    /\ todo_last' = [operation |-> "complete", item_name |-> item_name, due_date |-> <<>>]
    /\ UNCHANGED notTodos

TodoDelete(item_name) ==
    /\ LET r == TodoHandle("delete", item_name, <<>>, todo_file.rows)
       IN  /\ todo_file' = [exists |-> TRUE, rows |-> r.rows]
           /\ todo_out' = r.out
    /\ todo_last' = [operation |-> "delete", item_name |-> item_name, due_date |-> <<>>]
    /\ UNCHANGED notTodos

\* an operation name the tool does not know
TodoOther ==
    /\ LET r == TodoHandle("clear", <<>>, <<>>, todo_file.rows)
       IN  /\ todo_file' = [exists |-> TRUE, rows |-> r.rows]
           /\ todo_out' = r.out
    /\ todo_last' = [operation |-> "clear", item_name |-> <<>>, due_date |-> <<>>]
    /\ UNCHANGED notTodos

NextTodos ==
    \/ \E n \in ItemNames, d \in DueDates : TodoNew(n, d)
    \/ TodoList
    \/ \E n \in ItemNames : TodoComplete(n)
    \/ \E n \in ItemNames : TodoDelete(n)
    \/ TodoOther

StartTodos ==
    InitTodos /\ InitAgent /\ TierIdle /\ ParseIdle /\ InitNotes
        /\ VoiceIdle /\ SepIdle

SpecTodos == StartTodos /\ [][NextTodos]_vars

-----------------------------------------------------------------------------
(* The voice program: main() and DARSVoiceInterface of src/main.py *)

notVoice == <<pc, user_input, humor_before, tool_call, ret,
              tierVars, parseVars, noteVars, todoVars, sepVars>>

MaxTurns == 2

\* `if not os.getenv(NAME)` / `if not self.api_key`
EnvMissing_Never(present) == FALSE

EnvMissing(present) == ~present

FAREWELL == <<"Shutting down DARS. Goodbye!">>
VOICE_ERROR == <<"I encountered an error. Please try again.">>
DEACTIVATED == <<"Voice input deactivated. Press space to resume.">>
ACTIVATED == <<"Voice input activated. I'm listening.">>

PauseCommands ==
    {<<"pause", SP, "listening">>, <<"stop", SP, "listening">>,
     <<"pause", SP, "input">>, <<"stop", SP, "input">>}

ResumeCommands ==
    {<<"resume", SP, "listening">>, <<"start", SP, "listening">>,
     <<"resume", SP, "input">>, <<"start", SP, "input">>}

ExitCommands == {<<"quit">>, <<"exit">>, <<"stop">>, <<"goodbye">>}

\* texts the recognizer returns (listen() never returns an empty text)
Utterances ==
    {<<"quit">>, <<"Exit">>, <<"stop">>, <<"goodbye">>, <<"quit", SP, "now">>,
     <<"stop", SP, "listening">>, <<"pause", SP, "input">>,
     <<"resume", SP, "listening">>, <<"start", SP, "input">>,
     <<"hello">>, <<"set", SP, "humor", SP, "7">>}

\* what the agent task prints in a voice turn: a plain reply, or only the
\* function line of a tool
VoiceTurns == {PLAIN_REPLY, <<FUNC, SP, "Room Fan turned on", NL>>}

\* positions at which the process is alive and the keyboard hook is installed
Running == {"greeting", "loop", "sleep", "listening", "heard", "farewell",
            "speak", "except"}

\* positions inside the `while True:` of run
InLoop == Running \ {"greeting"}

InitVoice ==
    /\ VoiceState
    /\ openai_key \in BOOLEAN
    /\ eleven_key \in BOOLEAN

voiceEnv == <<openai_key, eleven_key>>

\* main: if not os.getenv("ELEVENLABS_API_KEY"): print(...); return
CheckSpeechKey ==
    /\ vpc = "main"
    /\ vpc' = IF EnvMissing(eleven_key) THEN "no_key" ELSE "construct"
    /\ UNCHANGED <<is_listening, utterance, reply, spoken, listens, calls, kpc, k_seen>>
    /\ UNCHANGED <<voiceEnv, key_pressed, humor_level, notVoice>>

\* DARSVoiceInterface(): DARSAgent() raises EnvironmentError without the key;
\* main catches it and prints "Fatal error"
AgentKeyMissing ==
    /\ vpc = "construct"
    /\ EnvMissing(openai_key)
    /\ vpc' = "startup_failed"
    /\ UNCHANGED <<is_listening, utterance, reply, spoken, listens, calls, kpc, k_seen>>
    /\ UNCHANGED <<voiceEnv, key_pressed, humor_level, notVoice>>

\* SpeechRecognizer() raises FileNotFoundError when the model folder is missing
RecognizerModelMissing ==
    /\ vpc = "construct"
    /\ ~EnvMissing(openai_key)
    /\ vpc' = "startup_failed"
    /\ UNCHANGED <<is_listening, utterance, reply, spoken, listens, calls, kpc, k_seen>>
    /\ UNCHANGED <<voiceEnv, key_pressed, humor_level, notVoice>>

\* DARSVoiceInterface.__init__ completes; run() starts with the greeting
Construct ==
    /\ vpc = "construct"
    /\ ~EnvMissing(openai_key)
    /\ vpc' = "greeting"
    /\ is_listening' = TRUE
    /\ humor_level' = DefaultHumor
    /\ UNCHANGED <<utterance, reply, spoken, listens, calls, kpc, k_seen>>
    /\ UNCHANGED <<voiceEnv, key_pressed, notVoice>>

\* the pre-recorded greeting has played
Greeting ==
    /\ vpc = "greeting"
    /\ vpc' = "loop"
    /\ UNCHANGED <<is_listening, utterance, reply, spoken, listens, calls, kpc, k_seen>>
    /\ UNCHANGED <<voiceEnv, key_pressed, humor_level, notVoice>>

\* pygame cannot load or play the greeting: run() is left before the loop
GreetingFails ==
    /\ vpc = "greeting"
    /\ vpc' = "startup_failed"
    /\ UNCHANGED <<is_listening, utterance, reply, spoken, listens, calls, kpc, k_seen>>
    /\ UNCHANGED <<voiceEnv, key_pressed, humor_level, notVoice>>

\* if not self.is_listening: sleep(0.1); continue
Sleep ==
    /\ vpc = "loop"
    /\ ~is_listening
    /\ vpc' = "sleep"
    /\ UNCHANGED <<is_listening, utterance, reply, spoken, listens, calls, kpc, k_seen>>
    /\ UNCHANGED <<voiceEnv, key_pressed, humor_level, notVoice>>

Wake ==
    /\ vpc = "sleep"
    /\ vpc' = "loop"
    /\ UNCHANGED <<is_listening, utterance, reply, spoken, listens, calls, kpc, k_seen>>
    /\ UNCHANGED <<voiceEnv, key_pressed, humor_level, notVoice>>

\* user_input = self.speech_recognizer.listen() is entered
StartListening ==
    /\ vpc = "loop"
    /\ is_listening
    /\ listens < MaxTurns
    /\ vpc' = "listening"
    /\ UNCHANGED <<is_listening, utterance, reply, spoken, listens, calls, kpc, k_seen>>
    /\ UNCHANGED <<voiceEnv, key_pressed, humor_level, notVoice>>

\* listen() returns u; if not user_input or not self.is_listening: continue
Hear(u) ==
    /\ vpc = "listening"
    /\ utterance' = u
    /\ listens' = listens + 1
    /\ vpc' = IF u = <<>> \/ ~is_listening THEN "loop" ELSE "heard"
    /\ UNCHANGED <<is_listening, reply, spoken, calls, kpc, k_seen>>
    /\ UNCHANGED <<voiceEnv, key_pressed, humor_level, notVoice>>

\* listen() raises (the input stream cannot be opened)
ListenRaises ==
    /\ vpc = "listening"
    /\ vpc' = "except"
    /\ UNCHANGED <<is_listening, utterance, reply, spoken, listens, calls, kpc, k_seen>>
    /\ UNCHANGED <<voiceEnv, key_pressed, humor_level, notVoice>>

\* if user_input.lower() in ['pause listening', ...]: is_listening = False
PauseCommand ==
    /\ vpc = "heard"
    /\ Lower(utterance) \in PauseCommands
    /\ is_listening' = FALSE
    /\ key_pressed' = FALSE
    /\ vpc' = "loop"
    /\ UNCHANGED <<utterance, reply, spoken, listens, calls, kpc, k_seen>>
    /\ UNCHANGED <<voiceEnv, humor_level, notVoice>>

\* elif user_input.lower() in ['resume listening', ...]: is_listening = True
ResumeCommand ==
    /\ vpc = "heard"
    /\ Lower(utterance) \notin PauseCommands
    /\ Lower(utterance) \in ResumeCommands
    /\ is_listening' = TRUE
    /\ vpc' = "loop"
    /\ UNCHANGED <<utterance, reply, spoken, listens, calls, kpc, k_seen>>
    /\ UNCHANGED <<voiceEnv, key_pressed, humor_level, notVoice>>

IsVoiceCommand(u) == Lower(u) \in PauseCommands \cup ResumeCommands

\* if user_input.lower() in ['quit', 'exit', 'stop', 'goodbye']: the farewell
\* is printed and handed to generate_speech
ExitCommand ==
    /\ vpc = "heard"
    /\ ~IsVoiceCommand(utterance)
    /\ Lower(utterance) \in ExitCommands
    /\ vpc' = "farewell"
    /\ UNCHANGED <<is_listening, utterance, reply, spoken, listens, calls, kpc, k_seen>>
    /\ UNCHANGED <<voiceEnv, key_pressed, humor_level, notVoice>>

\* generate_speech(farewell) has played; break
SpeakFarewell ==
    /\ vpc = "farewell"
    /\ spoken' = FAREWELL
    /\ vpc' = "ended"
    /\ UNCHANGED <<is_listening, utterance, reply, listens, calls, kpc, k_seen>>
    /\ UNCHANGED <<voiceEnv, key_pressed, humor_level, notVoice>>

\* generate_speech(farewell) raises: the break is not reached
FarewellRaises ==
    /\ vpc = "farewell"
    /\ vpc' = "except"
    /\ UNCHANGED <<is_listening, utterance, reply, spoken, listens, calls, kpc, k_seen>>
    /\ UNCHANGED <<voiceEnv, key_pressed, humor_level, notVoice>>

\* natural_language, function_output = self.dars.process_message(user_input)
\* if natural_language: ... generate_speech(natural_language)
ProcessTurn(stdout) ==
    /\ vpc = "heard"
    /\ ~IsVoiceCommand(utterance)
    /\ Lower(utterance) \notin ExitCommands
    /\ LET r == process_message(utterance, humor_level, stdout)
       IN  /\ humor_level' = r.humor_level
           /\ reply' = [nl |-> r.nl, func |-> r.func]
           /\ vpc' = IF r.nl # <<>> THEN "speak" ELSE "loop"
    /\ calls' = calls + 1
    /\ UNCHANGED <<is_listening, utterance, spoken, listens, kpc, k_seen>>
    /\ UNCHANGED <<voiceEnv, key_pressed, notVoice>>

\* process_message raises (task.run is not guarded)
ProcessRaises ==
    /\ vpc = "heard"
    /\ ~IsVoiceCommand(utterance)
    /\ Lower(utterance) \notin ExitCommands
    /\ calls' = calls + 1
    /\ vpc' = "except"
    /\ UNCHANGED <<is_listening, utterance, reply, spoken, listens, kpc, k_seen>>
    /\ UNCHANGED <<voiceEnv, key_pressed, humor_level, notVoice>>

\* generate_speech(natural_language) has played
SpeakReply ==
    /\ vpc = "speak"
    /\ spoken' = reply.nl
    /\ vpc' = "loop"
    /\ UNCHANGED <<is_listening, utterance, reply, listens, calls, kpc, k_seen>>
    /\ UNCHANGED <<voiceEnv, key_pressed, humor_level, notVoice>>

SpeakRaises ==
    /\ vpc = "speak"
    /\ vpc' = "except"
    /\ UNCHANGED <<is_listening, utterance, reply, spoken, listens, calls, kpc, k_seen>>
    /\ UNCHANGED <<voiceEnv, key_pressed, humor_level, notVoice>>

\* except Exception: generate_speech("I encountered an error...") has played
SpeakApology ==
    /\ vpc = "except"
    /\ spoken' = VOICE_ERROR
    /\ vpc' = "loop"
    /\ UNCHANGED <<is_listening, utterance, reply, listens, calls, kpc, k_seen>>
    /\ UNCHANGED <<voiceEnv, key_pressed, humor_level, notVoice>>

\* generate_speech raises inside the except block: the exception leaves the
\* loop and run(), and main prints "Fatal error"
ApologyRaises ==
    /\ vpc = "except"
    /\ vpc' = "crashed"
    /\ UNCHANGED <<is_listening, utterance, reply, spoken, listens, calls, kpc, k_seen>>
    /\ UNCHANGED <<voiceEnv, key_pressed, humor_level, notVoice>>

\* KeyboardInterrupt: `except KeyboardInterrupt: break`, or, inside the except
\* block, out of run() and main
Interrupt ==
    /\ vpc \in InLoop
    /\ vpc' = "interrupted"
    /\ UNCHANGED <<is_listening, utterance, reply, spoken, listens, calls, kpc, k_seen>>
    /\ UNCHANGED <<voiceEnv, key_pressed, humor_level, notVoice>>

\* toggle_listening (keyboard thread, alive while the process is):
\* self.is_listening is read ...
ToggleRead ==
    /\ vpc \in Running
    /\ kpc = "idle"
    /\ k_seen' = is_listening
    /\ key_pressed' = TRUE
    /\ kpc' = "flip"
    /\ UNCHANGED <<vpc, is_listening, utterance, reply, spoken, listens, calls>>
    /\ UNCHANGED <<voiceEnv, humor_level, notVoice>>

\* ... and its negation is stored
ToggleWrite ==
    /\ vpc \in Running
    /\ kpc = "flip"
    /\ is_listening' = ~k_seen
    /\ kpc' = "announce"
    /\ UNCHANGED <<vpc, utterance, reply, spoken, listens, calls, k_seen>>
    /\ UNCHANGED <<voiceEnv, key_pressed, humor_level, notVoice>>

\* the new state is announced through generate_speech
ToggleAnnounce ==
    /\ vpc \in Running
    /\ kpc = "announce"
    /\ spoken' = IF is_listening THEN ACTIVATED ELSE DEACTIVATED
    /\ kpc' = "idle"
    /\ UNCHANGED <<vpc, is_listening, utterance, reply, listens, calls, k_seen>>
    /\ UNCHANGED <<voiceEnv, key_pressed, humor_level, notVoice>>

\* generate_speech raises in the keyboard thread
ToggleAnnounceRaises ==
    /\ vpc \in Running
    /\ kpc = "announce"
    /\ kpc' = "idle"
    /\ UNCHANGED <<vpc, is_listening, utterance, reply, spoken, listens, calls, k_seen>>
    /\ UNCHANGED <<voiceEnv, key_pressed, humor_level, notVoice>>

NextVoice ==
    \/ CheckSpeechKey
    \/ AgentKeyMissing
    \/ RecognizerModelMissing
    \/ Construct
    \/ Greeting
    \/ GreetingFails
    \/ Sleep
    \/ Wake
    \/ StartListening
    \/ \E u \in Utterances : Hear(u)
    \/ ListenRaises
    \/ PauseCommand
    \/ ResumeCommand
    \/ ExitCommand
    \/ SpeakFarewell
    \/ FarewellRaises
    \/ \E stdout \in VoiceTurns : ProcessTurn(stdout)
    \/ ProcessRaises
    \/ SpeakReply
    \/ SpeakRaises
    \/ SpeakApology
    \/ ApologyRaises
    \/ Interrupt
    \/ ToggleRead
    \/ ToggleWrite
    \/ ToggleAnnounce
    \/ ToggleAnnounceRaises

StartVoice ==
    /\ InitVoice
    /\ pc = "new" /\ user_input = <<>> /\ humor_level = DefaultHumor
    /\ humor_before = DefaultHumor /\ tool_call = NoTool /\ ret = NoRet
    /\ TierIdle /\ ParseIdle /\ InitNotes /\ InitTodos /\ SepIdle

SpecVoice == StartVoice /\ [][NextVoice]_vars

\* The steps the main thread takes by itself while it waits for speech, and
\* the user saying a resume command whenever listen() is capturing.  The main
\* thread is never starved (the keyboard thread only runs on a key event) and
\* the user keeps asking for voice input to resume.
ResumeAttempt ==
    \/ Sleep
    \/ Wake
    \/ StartListening
    \/ \E u \in Utterances \cap ResumeCommands : Hear(u)
    \/ ResumeCommand

SpecVoiceLive == SpecVoice /\ WF_vars(ResumeAttempt)

-----------------------------------------------------------------------------
(* The two classification stages applied to one text *)

notSep == <<agentVars, tierVars, parseVars, noteVars, todoVars, voiceVars>>

MaxResponseLen == 4

ResponseTokens ==
    {"Coors Light Sign turned on", "coors light sign turned on",
     "Humor level changed to:", FUNC, "func:", "ok", NL}

\* a text, or a value that is not a str
Responses == SeqsUpTo(ResponseTokens, MaxResponseLen) \cup {None}

InitSep ==
    /\ sep_pc = "called"
    /\ sep_in \in Responses
    /\ sep_out = NoRet
    /\ mark_out = NoRet

\* DARSAgent.separate_function_output(response)
Separate ==
    /\ sep_pc = "called"
    /\ sep_out' = separate_function_output(sep_in)
    /\ sep_pc' = "returned"
    /\ UNCHANGED <<sep_in, mark_out>>
    /\ UNCHANGED notSep

\* the same text printed by the agent task and parsed by the markers
ClassifyByMarkers ==
    /\ sep_in # None
    /\ mark_out = NoRet
    /\ mark_out' = ParseResponse(DARSTaskRun(sep_in))
    /\ UNCHANGED <<sep_pc, sep_in, sep_out>>
    /\ UNCHANGED notSep

NextSep ==
    \/ Separate
    \/ ClassifyByMarkers

StartSep ==
    InitSep /\ InitAgent /\ TierIdle /\ ParseIdle /\ InitNotes /\ InitTodos
        /\ VoiceIdle

SpecSep == StartSep /\ [][NextSep]_vars

-----------------------------------------------------------------------------
(* Note and todo messages handled by the same agent *)

ToolTitles == {<<>>, <<"My", SP, "Plan">>}

ToolItems == {<<>>, <<"a">>}

ToolDueDates ==
    {<<>>, <<"tomorrow">>, <<"next week">>, <<"today">>, GIVEN_DATE,
     UNPADDED_DATE, <<"someday">>}

NextTools ==
    \/ \E t \in ToolTitles : NoteNew(t, <<"x">>, <<>>)
    \/ \E t \in ToolTitles : NoteRead(t)
    \/ \E t \in ToolTitles : NoteModify(t, <<"y", NL, "z">>)
    \/ \E t \in ToolTitles : NoteDelete(t)
    \/ \E n \in ToolItems, d \in ToolDueDates : TodoNew(n, d)
    \/ \E n \in ToolItems : TodoComplete(n)
    \/ \E n \in ToolItems : TodoDelete(n)

StartTools ==
    InitNotes /\ InitTodos /\ InitAgent /\ TierIdle /\ ParseIdle
        /\ VoiceIdle /\ SepIdle

SpecTools == StartTools /\ [][NextTools]_vars

-----------------------------------------------------------------------------
(* Claims about the humor level *)

IsChangeUtterance(msg) ==
    /\ Has(Lower(msg), "set") \/ Has(Lower(msg), "change") \/ Has(Lower(msg), "adjust")
    /\ Has(Lower(msg), "humor")

\* the first number of the utterance is written with a minus sign
FirstNumberNegative(msg) ==
    \E i \in 1..(Len(msg) - 1) :
        /\ msg[i] = "-"
        /\ msg[i + 1] \in Digits
        /\ \A j \in 1..i : msg[j] \notin Digits

\* the level the utterance asks for, sign included
RequestedLevel(msg) ==
    IF FirstNumberNegative(msg)
    THEN 0 - ParseInt(FindNumbers(msg)[1])
    ELSE ParseInt(FindNumbers(msg)[1])

\* C1: a humor-change utterance asking for a level outside [0,100] (150, -5)
\* leaves humor_level as it was and is answered by a correction message with
\* no function output.
C1_OutOfRangeLeavesHumorUnchanged ==
    (/\ pc = "print"
     /\ IsChangeUtterance(user_input)
     /\ FindNumbers(user_input) # <<>>
     /\ RequestedLevel(user_input) \notin 0..100)
        => /\ humor_level = humor_before
           /\ ret.func = None
           /\ ret.nl \in {PLEASE_RANGE, NOT_UNDERSTOOD}

\* C4: humor_level is an integer in [0,100] in every state reachable by
\* process_message calls, and 50 right after construction.
C4_HumorLevelInRange ==
    /\ humor_level \in 0..100
    /\ pc = "new" => humor_level = 50

\* a set command has stored the upper bound
C4_Witness ==
    /\ pc = "print"
    /\ humor_before # humor_level
    /\ humor_level = 100

ClaimedTier(n) ==
    CASE n \in 0..20 -> "very serious"
      [] n \in 21..40 -> "mostly serious"
      [] n \in 41..60 -> "balanced"
      [] n \in 61..80 -> "quite humorous"
      [] n \in 81..100 -> "extremely humorous"

\* C5: each of the three copies of the tier mapping (set command, query,
\* HumorLevelTool.handle) names, for every level 0..100, the tier of the
\* ranges 0-20, 21-40, 41-60, 61-80, 81-100, so the three agree.
C5_TierMapping ==
    /\ set_out # <<>> => set_out = <<ADJUSTED, SP, ClaimedTier(tier_in), NOTICE>>
    /\ query_out # <<>> =>
           /\ Len(query_out) > 3
           /\ query_out[Len(query_out) - 1] = ClaimedTier(tier_in)
    /\ tool_out # <<>> =>
           /\ Len(tool_out) > 3
           /\ tool_out[Len(tool_out) - 1] = ClaimedTier(tier_in)
    /\ (set_out # <<>> /\ query_out # <<>> /\ tool_out # <<>>) =>
           /\ set_out[3] = query_out[Len(query_out) - 1]
           /\ set_out[3] = tool_out[Len(tool_out) - 1]

\* all three copies applied at the upper end of the first tier
C5_Witness ==
    /\ tier_in = 20
    /\ set_out # <<>>
    /\ query_out # <<>>
    /\ tool_out # <<>>

\* C7: after an accepted request for level L through the direct command or
\* through the adjust_humor tool, the stored humor_level is L.
C7_AcceptedRequestIsStored ==
    pc = "print" =>
        /\ (/\ IsChangeUtterance(user_input)
            /\ FindNumbers(user_input) # <<>>
            /\ ParseInt(FindNumbers(user_input)[1]) \in 0..100)
               => humor_level = ParseInt(FindNumbers(user_input)[1])
        /\ tool_call # NoTool => humor_level = tool_call

\* the utterance holds the word w
HasWord(msg, w) == w \in Range(Lower(msg))

\* an explicit instruction to set the humor level: a set, change or adjust
\* word, the word humor and a number
IsSetInstruction(msg) ==
    /\ HasWord(msg, "set") \/ HasWord(msg, "change") \/ HasWord(msg, "adjust")
    /\ HasWord(msg, "humor")
    /\ FindNumbers(msg) # <<>>

\* a question about the humor level
IsHumorQuery(msg) ==
    /\ HasWord(msg, "humor")
    /\ \E w \in {"level", "setting", "what", "how"} : HasWord(msg, w)
    /\ ~IsSetInstruction(msg)

\* C20: humor_level changes only through an accepted explicit set-humor
\* instruction: a humor query (the word humor and one of level, setting, what,
\* how, no change request) is answered with the current level and its tier and
\* leaves humor_level as it was, and so does every message routed to the agent
\* task.
C20_OnlySetInstructionChangesHumor ==
    pc = "print" =>
        /\ humor_level # humor_before => IsSetInstruction(user_input)
        /\ IsHumorQuery(user_input) =>
               /\ humor_level = humor_before
               /\ ret = [nl |-> CurrentHumor(humor_before, ClaimedTier(humor_before)),
                         func |-> None]

-----------------------------------------------------------------------------
(* Claims about the parse *)

\* the lines of the transcript that are not noise
TranscriptLines(t) ==
    SelectSeq(Split(Remove(t, ESC), NL),
              LAMBDA l : /\ \A m \in NoiseMarkers : m \notin Range(l)
                         /\ \E i \in 1..Len(l) : l[i] \notin Whitespace)

MarkedLines(t) == SelectSeq(TranscriptLines(t), LAMBDA l : FUNC \in Range(l))

NaturalLines(t) == SelectSeq(TranscriptLines(t), LAMBDA l : FUNC \notin Range(l))

\* C2: with exactly one line carrying FUNC:, the parse returns that line with
\* the marker stripped as function output and the other non-noise lines,
\* joined in order, as natural language, whatever those lines hold.
C2_OneFunctionLine ==
    (ppc = "parsed" /\ Len(MarkedLines(captured)) = 1) =>
        /\ parse_out.func = Strip(Remove(MarkedLines(captured)[1], FUNC))
        /\ parse_out.nl = Strip(Join(NaturalLines(captured), NL))

\* C3: with no line carrying FUNC:, the parse returns all non-noise lines, in
\* order, as natural language and no function output.
C3_NoFunctionLine ==
    (/\ ppc = "parsed"
     /\ MarkedLines(captured) = <<>>
     /\ NaturalLines(captured) # <<>>) =>
        /\ parse_out.nl = Join(NaturalLines(captured), NL)
        /\ parse_out.func = None

\* C6: when the natural-language segment is empty or only whitespace (also
\* when the transcript has a function line and no natural-language line), the
\* result is the apology with no function output.
C6_EmptyNaturalIsApology ==
    (ppc = "parsed" /\ NaturalLines(captured) = <<>>) =>
        parse_out = [nl |-> APOLOGY, func |-> None]

-----------------------------------------------------------------------------
(* Claims about the note store *)

NoteReported(out, what) == Len(out) >= 3 /\ out[1] = FUNC /\ out[3] = what

SameTitleNext(ops) ==
    /\ note_last'.operation \in ops
    /\ note_last'.title = note_last.title

\* C8: a 'read' right after 'new' with a title and a body returns content
\* holding that body; once 'delete' has removed the note, a 'read' of the title
\* reports "Note not found", and so does a second 'delete', which leaves the
\* vault as it is.
C8_NoteNewReadDelete ==
    [][/\ (/\ note_last.operation = "new"
           /\ note_last.title # <<>>
           /\ note_last.content # <<>>
           /\ SameTitleNext({"read"}))
              => /\ NoteReported(note_out', "NOTE_CONTENT_FOR_PROCESSING")
                 /\ IsSubstring(note_last.content, note_out')
       /\ (/\ note_last.operation = "delete"
           /\ NoteReported(note_out, "Note deleted:")
           /\ SameTitleNext({"read", "delete"}))
              => /\ NoteReported(note_out', "Error: Note not found")
                 /\ vault' = vault
       /\ (/\ note_last.operation = "read"
           /\ NoteReported(note_out, "Error: Note not found")
           /\ SameTitleNext({"delete"}))
              => /\ NoteReported(note_out', "Error: Note not found")
                 /\ vault' = vault
      ]_vars

\* "My Plan" was created with body x and read back
C8_Witness ==
    /\ note_last.operation = "read"
    /\ note_last.title = <<"My", SP, "Plan">>
    /\ NoteReported(note_out, "NOTE_CONTENT_FOR_PROCESSING")
    /\ IsSubstring(<<"title: ", "My", SP, "Plan", NL>>, note_out)
    /\ IsSubstring(<<NL, NL, "x", NL>>, note_out)

-----------------------------------------------------------------------------
(* Claims about the todo store *)

\* needle is a case-insensitive substring of name
InNameIgnoringCase(needle, name) ==
    \E i \in 1..(Len(name) - Len(needle) + 1) :
        \A k \in 1..Len(needle) : LowerTok(name[i + k - 1]) = LowerTok(needle[k])

Completed(row) == [row EXCEPT !.completed = <<"True">>]

CompleteStep ==
    /\ todo_last'.operation = "complete"
    /\ todo_last'.item_name # <<>>

\* C9 as stated: 'complete' sets the flag of a todo whose name holds the item
\* name and leaves every other row, and the order, unchanged; with no match
\* the rows stay and "not found" is reported.
C9_OnlyThatTodoChanges ==
    [][CompleteStep =>
        LET before == todo_file.rows
            after == todo_file'.rows
            item == todo_last'.item_name
        IN  /\ Len(after) = Len(before)
            /\ \A i \in 1..Len(before) :
                   InNameIgnoringCase(item, before[i].name) =>
                       /\ after[i] = Completed(before[i])
                       /\ \A j \in 1..Len(before) : j # i => after[j] = before[j]
            /\ (\A i \in 1..Len(before) : ~InNameIgnoringCase(item, before[i].name)) =>
                   /\ after = before
                   /\ todo_out' = <<FUNC, SP, "Todo item not found:", SP>> \o item
      ]_vars

\* C9 amended: 'complete' sets the flag of every todo whose name holds the item
\* name (ignoring case) and leaves every row that does not match, and the
\* order, unchanged; with no match the rows stay and "not found" is reported.
C9_MatchingTodosCompleted ==
    [][CompleteStep =>
        LET before == todo_file.rows
            after == todo_file'.rows
            item == todo_last'.item_name
        IN  /\ Len(after) = Len(before)
            /\ \A i \in 1..Len(before) :
                   after[i] = IF InNameIgnoringCase(item, before[i].name)
                              THEN Completed(before[i])
                              ELSE before[i]
            /\ (\A i \in 1..Len(before) : ~InNameIgnoringCase(item, before[i].name)) =>
                   /\ after = before
                   /\ todo_out' = <<FUNC, SP, "Todo item not found:", SP>> \o item
      ]_vars

\* 'complete b' has flagged "aB" and left "a" alone
C9_Witness ==
    /\ todo_last.operation = "complete"
    /\ todo_last.item_name = <<"b">>
    /\ Len(todo_file.rows) = 2
    /\ todo_file.rows[1].name = <<"a", "B">>
    /\ todo_file.rows[1].completed = <<"True">>
    /\ todo_file.rows[2].name = <<"a">>
    /\ todo_file.rows[2].completed = <<"False">>
    /\ todo_out = <<FUNC, SP, "Completed todo item:", SP, "b">>

\* C10: 'delete' with an item name held by at least one stored name removes
\* the matching rows, keeps the others and reports "Deleted todo item"; it
\* reports "Todo item not found" only when no row matches.
C10_DeleteRemovesMatchingRows ==
    [][(todo_last'.operation = "delete" /\ todo_last'.item_name # <<>>) =>
        LET before == todo_file.rows
            after == todo_file'.rows
            item == todo_last'.item_name
            matches == {i \in 1..Len(before) : InNameIgnoringCase(item, before[i].name)}
        IN  IF matches # {}
            THEN /\ after = SelectSeq(before,
                                      LAMBDA row : ~InNameIgnoringCase(item, row.name))
                 /\ todo_out' = <<FUNC, SP, "Deleted todo item:", SP>> \o item
            ELSE /\ after = before
                 /\ todo_out' = <<FUNC, SP, "Todo item not found:", SP>> \o item
      ]_vars

-----------------------------------------------------------------------------
(* Claims about the voice program *)

\* C11: an exception raised during a voice turn, a failure of generate_speech
\* included, is caught inside run and answered with the apology, and the loop
\* goes on: no exception ends the loop (the program never leaves the loop of
\* run through an exception).
C11_ExceptionNeverEndsLoop == vpc # "crashed"

\* C18: when the LLM provider API key or the speech-synthesis API key is
\* missing at startup, the program stops before the interaction loop: no
\* utterance is captured and process_message is never called.
C18_MissingKeyNeverEntersLoop ==
    (~openai_key \/ ~eleven_key) =>
        /\ vpc \in {"main", "construct", "no_key", "startup_failed"}
        /\ ~eleven_key => vpc \in {"main", "no_key"}
        /\ listens = 0
        /\ calls = 0

\* DARSAgent() has raised for the missing OPENAI_API_KEY and main has printed
\* the fatal error
C18_Witness ==
    /\ ~openai_key
    /\ eleven_key
    /\ vpc = "startup_failed"


\* the recognized utterance is an exit word
SaidExitWord ==
    Lower(utterance) \in {<<"quit">>, <<"exit">>, <<"stop">>, <<"goodbye">>}

\* C19 (voice loop): once 'quit', 'exit', 'stop' or 'goodbye' is recognized
\* and taken up by the loop, the loop speaks the farewell and ends; no other
\* utterance ends it.
C19_ExitWordEndsLoop ==
    [][/\ (vpc = "heard" /\ SaidExitWord) =>
              vpc' \in {"heard", "farewell", "interrupted"}
       /\ vpc = "farewell" => vpc' \in {"farewell", "ended", "interrupted"}
       /\ (vpc' = "ended" /\ vpc # "ended") =>
              /\ SaidExitWord
              /\ spoken' = FAREWELL
      ]_vars

-----------------------------------------------------------------------------
(* Claims about the fallback stage *)

\* the piece of text from position i to the end of its line
LineEnd(text, i) ==
    CHOOSE j \in i..Len(text) :
        /\ j = Len(text) \/ text[j + 1] = NL
        /\ \A k \in i..j : text[k] # NL

\* the first pattern of the table found in the text, its first fragment cut
\* out, the rest trimmed
OneFragmentCut(text) ==
    LET present == {p \in 1..Len(FunctionPatterns) :
                       \E i \in 1..Len(text) : text[i] \in FunctionPatterns[p]}
    IN  IF present = {}
        THEN [nl |-> text, func |-> None]
        ELSE LET p == CHOOSE q \in present : \A r \in present : q <= r
                 at == {i \in 1..Len(text) : text[i] \in FunctionPatterns[p]}
                 i == CHOOSE a \in at : \A b \in at : a <= b
                 j == LineEnd(text, i)
             IN  [nl |-> Strip(SubSeq(text, 1, i - 1) \o SubSeq(text, j + 1, Len(text))),
                  func |-> SubSeq(text, i, j)]

\* C12: separate_function_output returns the first fragment of the first
\* pattern of the table that matches as function output and removes only that
\* fragment from the text, the trimmed rest being the natural language; with
\* no match the text comes back unchanged with no function output.
C12_OnlyOneFragmentRemoved ==
    (sep_pc = "returned" /\ sep_in # None) => sep_out = OneFragmentCut(sep_in)

\* the text holds the phrase of some pattern, in any letter case
HoldsPhraseIgnoringCase(text) ==
    \E i \in 1..Len(text), p \in 1..Len(FunctionPatterns) :
        \E head \in FunctionPatterns[p] : LowerTok(text[i]) = LowerTok(head)

\* the text holds the phrase of some pattern in the letter case of the table
HoldsPhraseExactly(text) ==
    \E i \in 1..Len(text), p \in 1..Len(FunctionPatterns) :
        text[i] \in FunctionPatterns[p]

\* a function output comes out of the marker stage exactly when FUNC: is
\* written in upper case
MarkersCaseSensitive ==
    mark_out # NoRet => (mark_out.func # None <=> FUNC \in Range(sep_in))

\* C13 as stated: the markers are matched case-sensitively, the phrases of the
\* fallback table case-insensitively ('coors light sign turned on' is
\* extracted like 'Coors Light Sign turned on').
C13_FallbackIgnoresCase ==
    /\ MarkersCaseSensitive
    /\ (sep_pc = "returned" /\ sep_in # None) =>
           (sep_out.func # None <=> HoldsPhraseIgnoringCase(sep_in))

\* C13 amended: the markers and the phrases of the fallback table are both
\* matched case-sensitively: a text holding a phrase only in another letter
\* case comes back unchanged with no function output.
C13_BothStagesCaseSensitive ==
    /\ MarkersCaseSensitive
    /\ (sep_pc = "returned" /\ sep_in # None) =>
           /\ sep_out.func # None <=> HoldsPhraseExactly(sep_in)
           /\ ~HoldsPhraseExactly(sep_in) => sep_out.nl = sep_in

\* a lower-case marker and a lower-case phrase went through both stages
C13_Witness ==
    /\ sep_in = <<"func:", "coors light sign turned on">>
    /\ sep_pc = "returned"
    /\ sep_out = [nl |-> sep_in, func |-> None]
    /\ mark_out = [nl |-> sep_in, func |-> None]

-----------------------------------------------------------------------------
(* Claims about both stores *)

\* the reply is a 'FUNC: Error' string about a missing name
ErrorReply(out) ==
    /\ Len(out) >= 3
    /\ out[1] = FUNC
    /\ out[2] = SP
    /\ out[3] \in {"Error: No title provided", "Error: No item name provided"}

\* C14: a NoteTool 'read', 'modify' or 'delete' without a title and a TodoTool
\* 'new', 'complete' or 'delete' without an item name return a 'FUNC: Error'
\* string and leave the note files and the todo rows as they are.
C14_MissingNameIsError ==
    [][/\ (/\ note_last'.operation \in {"read", "modify", "delete"}
           /\ note_last'.title = <<>>)
              => /\ ErrorReply(note_out')
                 /\ vault' = vault
       /\ (/\ todo_last'.operation \in {"new", "complete", "delete"}
           /\ todo_last'.item_name = <<>>)
              => /\ ErrorReply(todo_out')
                 /\ todo_file'.rows = todo_file.rows
      ]_vars

\* a note and a todo exist, and the last message to each tool had no name
C14_Witness ==
    /\ note_last.operation = "modify"
    /\ note_last.title = <<>>
    /\ ErrorReply(note_out)
    /\ vault[<<"My", "_", "Plan", ".md">>] # NoFile
    /\ todo_last.operation = "delete"
    /\ todo_last.item_name = <<>>
    /\ ErrorReply(todo_out)
    /\ Len(todo_file.rows) = 1

-----------------------------------------------------------------------------
(* Claims about the note header *)

\* the front matter 'new' writes for a title and a date
FrontMatter(title, date) ==
    <<"---", NL, "title: ">> \o title \o <<NL, "date: ">> \o date \o <<NL, "---", NL>>

\* the dates 'new' can have written
WrittenDates == {IF d = <<>> THEN FormatDate(0) ELSE d : d \in NoteDates}

StartsWith(text, prefix) ==
    Len(text) >= Len(prefix) /\ SubSeq(text, 1, Len(prefix)) = prefix

\* C15: a 'modify' with non-empty content on an existing note keeps the front
\* matter written at creation ('---', title, date, '---') at the start of the
\* file and replaces only the body by the new content.
C15_ModifyKeepsFrontMatter ==
    [][(/\ note_last'.operation = "modify"
        /\ NoteReported(note_out', "Note modified:"))
          => LET f == NoteFileName(note_last'.title)
             IN  \E t \in NoteTitles \ {<<>>}, d \in WrittenDates :
                     /\ NoteFileName(t) = f
                     /\ StartsWith(vault[f], FrontMatter(t, d))
                     /\ vault'[f] = FrontMatter(t, d) \o note_last'.content
      ]_vars

-----------------------------------------------------------------------------
(* Claims about new todos *)

\* the due date the claim gives for a due text
ClaimedDueDate(text) ==
    CASE text = <<"tomorrow">> -> FormatDate(1)
      [] text = <<"next week">> -> FormatDate(7)
      [] text = <<"today">> -> FormatDate(0)
      [] text \in {<<"2024-05-01">>, <<"2024-5-1">>} -> <<"2024-05-01">>
      [] OTHER -> FormatDate(0)

-----------------------------------------------------------------------------
(* Claims about noise lines *)

HoldsNoiseMarker(text) == \E m \in NoiseMarkers : m \in Range(text)

\* the transcript with its noise lines taken out
WithoutNoise(t) == Join(TranscriptLines(t), NL)

\* what process_message hands back as natural language
NaturalResult(nl) == IF nl # <<>> THEN clean_response(nl) ELSE nl

\* C17: for any transcript, no line holding '>>>', '<<<', 'Stats:', 'WARNING'
\* or the shutdown banner and no blank line of the transcript is part of the
\* natural-language or the function output: the outputs hold no noise marker
\* and are those of the transcript without its noise lines.
C17_NoiseLinesAbsent ==
    ppc = "parsed" =>
        /\ ~HoldsNoiseMarker(parse_out.nl)
        /\ ~HoldsNoiseMarker(NaturalResult(parse_out.nl))
        /\ ~HoldsNoiseMarker(parse_out.func)
        /\ parse_out = ParseResponse(DARSTaskRun(WithoutNoise(captured)))

\* a marker line and a blank line stood before the reply
C17_Witness ==
    /\ ppc = "parsed"
    /\ captured = <<">>>", "hi", NL, NL, "hi">>
    /\ parse_out = [nl |-> <<"hi">>, func |-> None]

-----------------------------------------------------------------------------
(* Claims about pausing and resuming voice input *)

\* a spoken pause command has switched voice input off, no key event came
\* after it or is being handled, and the recognizer can still capture an
\* utterance
PausedByVoice ==
    /\ vpc \in InLoop
    /\ listens < MaxTurns
    /\ Lower(utterance) \in PauseCommands
    /\ ~is_listening
    /\ kpc = "idle"
    /\ ~key_pressed

\* C21: when a spoken pause command has deactivated voice input, a later
\* spoken resume command reactivates it: as long as the program runs, voice
\* input becomes active again without a press of the spacebar.
C21_ResumeCommandReactivates ==
    PausedByVoice ~> (is_listening \/ key_pressed \/ vpc \notin InLoop)

\* the step is the call of process_message, or the playing of its reply
TurnStep ==
    \/ calls' = calls + 1
    \/ vpc = "speak" /\ vpc' = "loop" /\ spoken' = reply.nl

\* C22: however the spacebar callback toggle_listening interleaves with the
\* voice loop, an utterance is handed to process_message, and its reply is
\* spoken, only while is_listening is true.
C22_TurnOnlyWhileListening == [][TurnStep => is_listening]_vars

-----------------------------------------------------------------------------
(* Claims about the delimiters of DARSTask.run *)

\* text.count(tok)
Occurrences(text, tok) == Cardinality({i \in 1..Len(text) : text[i] = tok})

Delimiters == {FUNCTION_OUTPUT, NATURAL_OUTPUT}

\* C23: for every transcript with at least one function line (the function
\* lines themselves free of the two words), whatever its natural-language
\* lines hold, _parse_response returns the function part
\* separately, and the natural language holds no 'FUNCTION_OUTPUT:' or
\* 'NATURAL_OUTPUT:' inserted by DARSTask.run: it holds each of them no more
\* often than the natural-language lines of the transcript did.
C23_DelimitersNotInNatural ==
    (/\ ppc = "parsed"
     /\ MarkedLines(captured) # <<>>
     /\ \A d \in Delimiters : ~Has(Join(MarkedLines(captured), NL), d)) =>
        /\ parse_out.func # None
        /\ \A d \in Delimiters :
               Occurrences(parse_out.nl, d)
                   <= Occurrences(Join(NaturalLines(captured), NL), d)

=============================================================================
